---- MODULE Spec2Model ----
(***************************************************************************)
(* A model of street_view.py: the StreetView session (constructor, lazy    *)
(* metadata, derived grid properties) and download(), which fetches the    *)
(* tiles of the grid one by one, concatenates them and saves the result.   *)
(*                                                                         *)
(* An image is a record [width, height, px]; px[y][x] (1-based) is the     *)
(* pixel at column x of line y.  A pixel of a fetched tile is the tuple    *)
(* <<row, column, u, v>>: the grid cell the tile was requested for and the *)
(* pixel's own place (u across, v down, 1-based) in that tile.             *)
(***************************************************************************)
EXTENDS Integers, Sequences, FiniteSets

VARIABLES
    constructed,    \* "none": no object yet, "ok": __init__ returned, "rejected": __init__ raised
    zoom_factor,    \* self.zoom_factor (0 while unset)
    _metadata,      \* self._metadata
    metaRequests,   \* requests.get calls made on the metadata endpoint
    metaFailed,     \* a metadata request failed, or its body did not parse
    calls,          \* accessor reads and download() calls made by the caller so far
    outcome,        \* how the last finished step of a call ended: "none", "returned", "raised"
    result,         \* what the last accessor read returned
    pc,             \* where download() stands: "idle", "row", "col", "save", "saved", "raised"
    row,            \* download's loop variable row
    column,         \* download's loop variable column
    IMAGE,          \* download's local IMAGE
    cur_slice,      \* download's local cur_slice
    total_tiles,    \* download's local total_tiles
    pbar,           \* the progress indicator's count
    tileReqs,       \* the tile requests of the running download, in order, as <<x, y>>
    tileSizes,      \* the <<width, height>> of the tiles decoded in the running download, in order
    mismatched,     \* a concatenation of the running download got images of differing height (h) or width (v)
    tileFailed,     \* a tile request of the running download failed, had a non-success status or an undecodable body
    saved           \* IMAGE.save wrote the output file in the running download

vars == <<constructed, zoom_factor, _metadata, metaRequests, metaFailed, calls,
          outcome, result, pc, row, column, IMAGE, cur_slice, total_tiles, pbar,
          tileReqs, tileSizes, mismatched, tileFailed, saved>>

sessionVars == <<constructed, zoom_factor>>
downloadVars == <<pc, row, column, IMAGE, cur_slice, total_tiles, pbar, tileReqs,
                  tileSizes, mismatched, tileFailed, saved>>

(***************************************************************************)
(* Bounds of the model.                                                    *)
(***************************************************************************)
MaxZoomArg == 6         \* constructor arguments are 0..MaxZoomArg
MaxImageDim == 1026     \* the largest image_width / image_height the metadata names
MaxTileSide == 2        \* served tiles are squares of side 1 or MaxTileSide
MaxCalls == 2           \* accessor reads and download() calls per session
MaxDimSteps == 12       \* SpecDims: image dimensions reach MaxDimSteps * DimStep
DimStep == 1024         \* SpecDims: spacing of the image dimensions tried

(***************************************************************************)
(* Program constants.                                                      *)
(***************************************************************************)
TileSize == 512         \* the divisor of num_rows / num_columns
ZoomBase == 5           \* the 5 of 2 ** (5 - zoom_factor)
QuirkZoom == 2          \* the zoom_factor whose num_rows gets one more row

ZoomArgs == 0..MaxZoomArg
ImageDims == {1, MaxImageDim}
TileSides == {1, MaxTileSide}

(***************************************************************************)
(* Images (PIL).                                                           *)
(***************************************************************************)
NoneImage == [width |-> 0, height |-> 0, px |-> <<>>]

Black == <<-1, -1, 0, 0>>

\* Image.open of the body served for cell (r, c): a tile of w x h pixels.
Tile(r, c, w, h) ==
    [width |-> w, height |-> h,
     px |-> [v \in 1..h |-> [u \in 1..w |-> <<r, c, u, v>>]]]

\* Image.new('RGB', (w, h)): a black image.
ImageNew(w, h) ==
    [width |-> w, height |-> h, px |-> [y \in 1..h |-> [x \in 1..w |-> Black]]]

\* dst.paste(im, (x0, y0)): im's pixels land at offset (x0, y0); what falls
\* outside dst is dropped, what im does not cover keeps dst's pixel.
Paste(dst, im, x0, y0) ==
    [dst EXCEPT !.px =
        [y \in 1..dst.height |->
            [x \in 1..dst.width |->
                IF (x - x0) \in 1..im.width /\ (y - y0) \in 1..im.height
                THEN im.px[y - y0][x - x0]
                ELSE dst.px[y][x]]]]

get_concat_h(im1, im2) ==
    Paste(Paste(ImageNew(im1.width + im2.width, im1.height), im1, 0, 0),
          im2, im1.width, 0)

get_concat_v(im1, im2) ==
    Paste(Paste(ImageNew(im1.width, im1.height + im2.height), im1, 0, 0),
          im2, 0, im1.height)

(***************************************************************************)
(* Arithmetic of the derived properties.                                   *)
(***************************************************************************)
RECURSIVE Pow2(_)
Pow2(n) == IF n <= 0 THEN 1 ELSE 2 * Pow2(n - 1)

\* int(a / b) for b > 0: true division, then truncation toward zero.
IntOfQuotient(a, b) == IF a >= 0 THEN a \div b ELSE -((-a) \div b)

\* A variant that truncates where the code takes the ceiling.
FloorOfQuotient(a, b) == a \div b

\* int(math.ceil(a / b)) for b > 0.
CeilOfQuotient(a, b) == -((-a) \div b)

(***************************************************************************)
(* Metadata.  A value of self._metadata, and a response of the metadata    *)
(* endpoint, is [kind, w, h]:                                              *)
(*   "None"     self._metadata before any body was stored                  *)
(*   "neterr"   requests.get raised                                        *)
(*   "badjson"  the body is not JSON: json.loads raised                    *)
(*   "nondict"  the body is JSON but not an object (a list, a number, ...) *)
(*   "nodata"   an object without usable Data.image_width / image_height   *)
(*   "nolinks"  an object with Data but without Links[0].panoId            *)
(*   "full"     an object with Data and Links[0].panoId                    *)
(***************************************************************************)
NoneMetadata == [kind |-> "None", w |-> 0, h |-> 0]

MetaResponsesOver(dims) ==
    {[kind |-> k, w |-> 0, h |-> 0] : k \in {"neterr", "badjson", "nondict", "nodata"}}
    \cup {[kind |-> k, w |-> w, h |-> h] : k \in {"nolinks", "full"}, w \in dims, h \in dims}

MetaResponses == MetaResponsesOver(ImageDims)

\* isinstance(self._metadata, dict)
IsDict(md) == md.kind \in {"nodata", "nolinks", "full"}

\* The metadata property, read when self._metadata is md and the endpoint
\* would answer resp: [md: self._metadata afterwards, ok: no exception,
\* req: requests made, failed: the request or the parse failed].
metadata(md, resp) ==
    IF IsDict(md)
    THEN [md |-> md, ok |-> TRUE, req |-> 0, failed |-> FALSE]
    ELSE IF resp.kind \in {"neterr", "badjson"}
         THEN [md |-> md, ok |-> FALSE, req |-> 1, failed |-> TRUE]
         ELSE [md |-> resp, ok |-> TRUE, req |-> 1, failed |-> FALSE]

HasData(md) == md.kind \in {"nolinks", "full"}
HasLinks(md) == md.kind = "full"

original_height(md) == md.h
original_width(md) == md.w

output_width(md, z) == IntOfQuotient(original_width(md), Pow2(ZoomBase - z))
output_height(md, z) == IntOfQuotient(original_height(md), Pow2(ZoomBase - z))

num_rows(md, z) ==
    IF z = QuirkZoom
    THEN CeilOfQuotient(output_height(md, z), TileSize) + 1
    ELSE CeilOfQuotient(output_height(md, z), TileSize)

num_columns(md, z) == CeilOfQuotient(output_width(md, z), TileSize)

Fields == {"pano_id", "original_width", "original_height", "output_width",
           "output_height", "num_rows", "num_columns"}

\* Whether reading field f of a session whose metadata is md raises.
FieldRaises(md, f) == IF f = "pano_id" THEN ~HasLinks(md) ELSE ~HasData(md)

PanoId == "X"

FieldValue(md, z, f) ==
    CASE f = "pano_id" -> PanoId
      [] f = "original_width" -> original_width(md)
      [] f = "original_height" -> original_height(md)
      [] f = "output_width" -> output_width(md, z)
      [] f = "output_height" -> output_height(md, z)
      [] f = "num_rows" -> num_rows(md, z)
      [] f = "num_columns" -> num_columns(md, z)

NoResult == [field |-> "none", value |-> 0]

(***************************************************************************)
(* The session.                                                            *)
(***************************************************************************)
IdleDownload ==
    /\ pc = "idle" /\ row = 0 /\ column = 0
    /\ IMAGE = NoneImage /\ cur_slice = NoneImage
    /\ total_tiles = 0 /\ pbar = 0
    /\ tileReqs = <<>> /\ tileSizes = <<>> /\ mismatched = FALSE
    /\ tileFailed = FALSE /\ saved = FALSE

Init ==
    /\ constructed = "none"
    /\ zoom_factor = 0
    /\ _metadata = NoneMetadata
    /\ metaRequests = 0
    /\ metaFailed = FALSE
    /\ calls = 0
    /\ outcome = "none"
    /\ result = NoResult
    /\ IdleDownload

\* assert zoom_factor < 6 and zoom_factor > 0
ZoomAccepted(z) == z < 6 /\ z > 0

\* StreetView(latitude, longitude, zoom_factor = z)
Construct(z) ==
    /\ constructed = "none"
    /\ IF ZoomAccepted(z)
       THEN constructed' = "ok" /\ zoom_factor' = z /\ outcome' = "returned"
       ELSE constructed' = "rejected" /\ zoom_factor' = 0 /\ outcome' = "raised"
    /\ UNCHANGED <<_metadata, metaRequests, metaFailed, calls, result>>
    /\ UNCHANGED downloadVars

\* The caller reads the property f; the metadata endpoint would answer resp.
Access(f, resp) ==
    /\ constructed = "ok"
    /\ pc = "idle"
    /\ calls < MaxCalls
    /\ LET m == metadata(_metadata, resp) IN
        /\ _metadata' = m.md
        /\ metaRequests' = metaRequests + m.req
        /\ metaFailed' = (metaFailed \/ m.failed)
        /\ IF m.ok /\ ~FieldRaises(m.md, f)
           THEN /\ outcome' = "returned"
                /\ result' = [field |-> f, value |-> FieldValue(m.md, zoom_factor, f)]
           ELSE /\ outcome' = "raised"
                /\ result' = NoResult
    /\ calls' = calls + 1
    /\ UNCHANGED sessionVars
    /\ UNCHANGED downloadVars

(***************************************************************************)
(* download().  A response of the tile endpoint is [kind, status,          *)
(* decodable, side]: "neterr" when requests.get raised, else "http" with   *)
(* the status code, whether Image.open accepts the body, and the side of   *)
(* the decoded tile.                                                       *)
(***************************************************************************)
StatusOK == "200"
StatusNotFound == "404"

TileResponses ==
    {[kind |-> "neterr", status |-> "none", decodable |-> FALSE, side |-> 0]}
    \cup {[kind |-> "http", status |-> s, decodable |-> FALSE, side |-> 0] :
            s \in {StatusOK, StatusNotFound}}
    \cup {[kind |-> "http", status |-> s, decodable |-> TRUE, side |-> d] :
            s \in {StatusOK, StatusNotFound}, d \in TileSides}

\* An exception leaves download(): nothing else of it runs.
Raise ==
    /\ pc' = "raised"
    /\ UNCHANGED <<row, column, IMAGE, cur_slice, total_tiles, pbar, saved>>
    /\ UNCHANGED <<tileSizes, mismatched>>

\* download(output_path) is called: IMAGE = None, cur_slice = None,
\* total_tiles = self.num_rows * self.num_columns, and the progress bar opens.
Download(resp) ==
    /\ constructed = "ok"
    /\ pc = "idle"
    /\ calls < MaxCalls
    /\ calls' = calls + 1
    /\ LET m == metadata(_metadata, resp) IN
        /\ _metadata' = m.md
        /\ metaRequests' = metaRequests + m.req
        /\ metaFailed' = (metaFailed \/ m.failed)
        /\ IF m.ok /\ HasData(m.md)
           THEN /\ pc' = "row"
                /\ total_tiles' = num_rows(m.md, zoom_factor) * num_columns(m.md, zoom_factor)
                /\ UNCHANGED <<row, column, IMAGE, cur_slice, pbar, saved>>
                /\ UNCHANGED <<tileSizes, mismatched>>
           ELSE Raise
    /\ UNCHANGED <<tileReqs, tileFailed>>
    /\ UNCHANGED <<outcome, result>>
    /\ UNCHANGED sessionVars

\* IMAGE after the merge at the head of a row: cur_slice, when there is one,
\* becomes IMAGE or goes below it.
MergeRow(image, slice) ==
    IF slice # NoneImage
    THEN IF image = NoneImage THEN slice ELSE get_concat_v(image, slice)
    ELSE image

\* for row in range(self.num_rows): the head of one iteration, up to the
\* entry of the column loop (which is over at once when there are no columns).
RowStart ==
    /\ pc = "row"
    /\ row < num_rows(_metadata, zoom_factor)
    /\ IMAGE' = MergeRow(IMAGE, cur_slice)
    /\ mismatched' = (mismatched \/ (cur_slice # NoneImage /\ IMAGE # NoneImage
                                        /\ IMAGE.width # cur_slice.width))
    /\ cur_slice' = NoneImage
    /\ IF num_columns(_metadata, zoom_factor) > 0
       THEN pc' = "col" /\ column' = 0 /\ row' = row
       ELSE pc' = "row" /\ column' = 0 /\ row' = row + 1
    /\ UNCHANGED <<total_tiles, pbar, tileReqs, tileSizes, tileFailed, saved>>
    /\ UNCHANGED <<_metadata, metaRequests, metaFailed, calls, outcome, result>>
    /\ UNCHANGED sessionVars

\* cur_slice after the tile im was decoded.
AppendTile(slice, im) ==
    IF slice = NoneImage THEN im ELSE get_concat_h(slice, im)

\* A variant that swaps the two coordinates of the request.
TileRequestSwapped(c, r) == <<r, c>>

\* The tile request of cell (row, column): x = column, y = row.
TileRequest(c, r) == <<c, r>>

\* One iteration of the column loop: the url (which reads self.pano_id), the
\* request, Image.open, the concatenation and pbar.update().
FetchTile(resp) ==
    /\ pc = "col"
    /\ IF ~HasLinks(_metadata)
       THEN /\ Raise
            /\ UNCHANGED <<tileReqs, tileFailed>>
       ELSE /\ tileReqs' = Append(tileReqs, TileRequest(column, row))
            /\ tileFailed' = (tileFailed \/ resp.kind = "neterr"
                                \/ resp.status # StatusOK \/ ~resp.decodable)
            /\ IF resp.kind = "neterr" \/ ~resp.decodable
               THEN Raise
               ELSE /\ cur_slice' = AppendTile(cur_slice,
                                        Tile(row, column, resp.side, resp.side))
                    /\ tileSizes' = Append(tileSizes, <<resp.side, resp.side>>)
                    /\ mismatched' = (mismatched \/ (cur_slice # NoneImage
                                                        /\ cur_slice.height # resp.side))
                    /\ pbar' = pbar + 1
                    /\ IF column + 1 < num_columns(_metadata, zoom_factor)
                       THEN pc' = "col" /\ column' = column + 1 /\ row' = row
                       ELSE pc' = "row" /\ column' = column /\ row' = row + 1
                    /\ UNCHANGED <<IMAGE, total_tiles, saved>>
    /\ UNCHANGED <<_metadata, metaRequests, metaFailed, calls, outcome, result>>
    /\ UNCHANGED sessionVars

\* IMAGE after the row loop: if IMAGE == None: IMAGE = cur_slice.
FinalImage(image, slice) == IF image = NoneImage THEN slice ELSE image

\* The row loop is over; the progress bar closes.
LoopEnd ==
    /\ pc = "row"
    /\ row >= num_rows(_metadata, zoom_factor)
    /\ IMAGE' = FinalImage(IMAGE, cur_slice)
    /\ pc' = "save"
    /\ UNCHANGED <<row, column, cur_slice, total_tiles, pbar, saved>>
    /\ UNCHANGED <<tileReqs, tileSizes, mismatched, tileFailed>>
    /\ UNCHANGED <<_metadata, metaRequests, metaFailed, calls, outcome, result>>
    /\ UNCHANGED sessionVars

\* A variant in which saving never fails, whatever IMAGE is.
SaveWritesAlways(image) == TRUE

\* Whether IMAGE.save writes the file: None has no save, the call raises.
SaveWrites(image) == image # NoneImage

\* IMAGE.save(output_path, format = output_type)
Save ==
    /\ pc = "save"
    /\ IF SaveWrites(IMAGE)
       THEN /\ saved' = TRUE
            /\ pc' = "saved"
            /\ UNCHANGED <<row, column, IMAGE, cur_slice, total_tiles, pbar>>
            /\ UNCHANGED <<tileSizes, mismatched>>
       ELSE Raise
    /\ UNCHANGED <<tileReqs, tileFailed>>
    /\ UNCHANGED <<_metadata, metaRequests, metaFailed, calls, outcome, result>>
    /\ UNCHANGED sessionVars

\* download() returns or its exception reaches the caller: its locals are gone.
Return ==
    /\ pc \in {"saved", "raised"}
    /\ outcome' = (IF pc = "saved" THEN "returned" ELSE "raised")
    /\ result' = NoResult
    /\ pc' = "idle" /\ row' = 0 /\ column' = 0
    /\ IMAGE' = NoneImage /\ cur_slice' = NoneImage
    /\ total_tiles' = 0 /\ pbar' = 0
    /\ tileReqs' = <<>> /\ tileSizes' = <<>> /\ mismatched' = FALSE
    /\ tileFailed' = FALSE /\ saved' = FALSE
    /\ UNCHANGED <<_metadata, metaRequests, metaFailed, calls>>
    /\ UNCHANGED sessionVars

Next ==
    \/ \E z \in ZoomArgs : Construct(z)
    \/ \E f \in Fields, resp \in MetaResponses : Access(f, resp)
    \/ \E resp \in MetaResponses : Download(resp)
    \/ RowStart
    \/ \E resp \in TileResponses : FetchTile(resp)
    \/ LoopEnd
    \/ Save
    \/ Return

Spec == Init /\ [][Next]_vars

(***************************************************************************)
(* The derived properties alone: sessions whose metadata is already cached *)
(* and names a wide range of image dimensions; the caller reads one        *)
(* property.                                                               *)
(***************************************************************************)
DimOffsets == {0, 1, 15, 16}
DimSet == {i * DimStep + o : i \in 0..MaxDimSteps, o \in DimOffsets}

InitDims ==
    /\ constructed = "ok"
    /\ zoom_factor \in {z \in ZoomArgs : ZoomAccepted(z)}
    /\ _metadata \in {[kind |-> "full", w |-> w, h |-> h] : w \in DimSet, h \in DimSet}
    /\ metaRequests = 1
    /\ metaFailed = FALSE
    /\ calls = MaxCalls - 1
    /\ outcome = "returned"
    /\ result = NoResult
    /\ IdleDownload

NextDims == \E f \in Fields : Access(f, NoneMetadata)

SpecDims == InitDims /\ [][NextDims]_vars

(***************************************************************************)
(* Properties.                                                             *)
(***************************************************************************)
nr == num_rows(_metadata, zoom_factor)
nc == num_columns(_metadata, zoom_factor)

\* The download is past its first line and the grid is known.
InDownload == pc # "idle" /\ HasData(_metadata)

\* 2^(5 - z), written out for the documented zoom factors.
Divisor(z) == CASE z = 1 -> 16 [] z = 2 -> 8 [] z = 3 -> 4 [] z = 4 -> 2

\* q = floor(a / b)
IsFloor(q, a, b) == q * b <= a /\ a < (q + 1) * b
\* n = ceil(a / b)
IsCeil(n, a, b) == (n - 1) * b < a /\ a <= n * b

\* C7: for zoom_factor in 1..4 and non-negative image dimensions,
\* output_width and output_height are the floors of the original dimension
\* over 2^(5 - zoom_factor), num_columns is the ceiling of output_width / 512,
\* and num_rows the ceiling of output_height / 512, plus exactly one when
\* zoom_factor is 2 and plus nothing at any other zoom; this holds of the
\* value every accessor read returns.
C7_DerivedDimensions ==
    (constructed = "ok" /\ zoom_factor \in 1..4 /\ HasData(_metadata)) =>
        LET z == zoom_factor
            ow == output_width(_metadata, z)
            oh == output_height(_metadata, z)
            extra == IF z = 2 THEN 1 ELSE 0
            Read(f) == outcome = "returned" /\ result.field = f
        IN  /\ IsFloor(ow, _metadata.w, Divisor(z))
            /\ IsFloor(oh, _metadata.h, Divisor(z))
            /\ IsCeil(num_columns(_metadata, z), ow, 512)
            /\ IsCeil(num_rows(_metadata, z) - extra, oh, 512)
            /\ Read("output_width") => IsFloor(result.value, _metadata.w, Divisor(z))
            /\ Read("output_height") => IsFloor(result.value, _metadata.h, Divisor(z))
            /\ Read("num_columns") => IsCeil(result.value, ow, 512)
            /\ Read("num_rows") => IsCeil(result.value - extra, oh, 512)

\* C7's case: at zoom_factor 2 an output_height whose ceiling over 512 is 3
\* was read as num_rows = 4, from an image height that is no multiple of 8.
C7_Witness ==
    /\ zoom_factor = 2
    /\ outcome = "returned" /\ result.field = "num_rows" /\ result.value = 4
    /\ IsCeil(3, output_height(_metadata, 2), 512)
    /\ _metadata.h % 8 # 0

\* Every tile decoded in the running download has the same size.
UniformTiles == \A i \in 1..Len(tileSizes) : tileSizes[i] = tileSizes[1]

\* C1: when the grid has at least one row and one column and every fetched
\* tile has the same size, the composite that download() saves is
\* num_columns * tile_width wide and num_rows * tile_height high.
C1_CompositeDimensions ==
    (pc = "saved" /\ HasData(_metadata) /\ nr >= 1 /\ nc >= 1 /\ UniformTiles) =>
        /\ IMAGE.width = nc * tileSizes[1][1]
        /\ IMAGE.height = nr * tileSizes[1][2]

\* The places <<x, y>> of the composite that show pixel (u, v) of the tile
\* fetched for cell (r, c).
PlacesOf(r, c, u, v) ==
    {p \in (1..IMAGE.width) \X (1..IMAGE.height) : IMAGE.px[p[2]][p[1]] = <<r, c, u, v>>}

\* C2: at the save step the composite contains every tile that was fetched
\* (all of its pixels), the rows top to bottom in increasing row and the
\* tiles of a row left to right in increasing column.
C2_EveryTileInComposite ==
    (pc \in {"save", "saved"} /\ HasData(_metadata)) =>
        /\ \A i \in 1..Len(tileSizes) :
            \A u \in 1..tileSizes[i][1], v \in 1..tileSizes[i][2] :
                PlacesOf(tileReqs[i][2], tileReqs[i][1], u, v) # {}
        /\ \A i, j \in 1..Len(tileSizes) :
            \A p \in PlacesOf(tileReqs[i][2], tileReqs[i][1], 1, 1),
               q \in PlacesOf(tileReqs[j][2], tileReqs[j][1], 1, 1) :
                /\ tileReqs[i][2] < tileReqs[j][2] => p[2] < q[2]
                /\ (tileReqs[i][2] = tileReqs[j][2] /\ tileReqs[i][1] < tileReqs[j][1])
                        => (p[1] < q[1] /\ p[2] = q[2])

\* C3: a zoom_factor outside the open interval (0, 5) is rejected by the
\* constructor: every session that was constructed has a zoom_factor in
\* 1..4, and a rejection comes before any metadata or tile request.
C3_ZoomOutsideRangeRejected ==
    /\ constructed = "ok" => zoom_factor \in 1..4
    /\ constructed = "rejected" => (metaRequests = 0 /\ tileReqs = <<>>)

\* C4: a concatenation of images of differing height (horizontal) or
\* differing width (vertical) fails: once a download has concatenated such
\* images it is in error, with no cropped or padded image carried on.
C4_MismatchRejected == mismatched => pc = "raised"

\* C5: a tile fetch that fails (network error, non-success status, body
\* that does not decode) aborts the download at that tile, and the output
\* file is written only after every tile was fetched and decoded with
\* success.
C5_TileFailureAborts ==
    /\ tileFailed => (pc = "raised" /\ ~saved)
    /\ saved => (~tileFailed /\ Len(tileSizes) = nr * nc)

\* C6: the metadata endpoint is requested at most once per session,
\* whatever the body of its response was: as long as no request failed and
\* every body parsed, there was at most one request.
C6_MetadataRequestedOnce == ~metaFailed => metaRequests <= 1

\* C9: once the metadata request has failed or its body did not parse,
\* every call fails, no further metadata request is made, no tile is
\* requested and no file is written.
C9_MetadataFailureIsFinal ==
    metaFailed =>
        /\ metaRequests <= 1
        /\ pc = "idle" => outcome = "raised"
        /\ tileReqs = <<>>
        /\ ~saved

\* C8: the tile requests of a download are issued in row-major order, the
\* i-th for x = (i - 1) mod num_columns, y = (i - 1) div num_columns, and the
\* progress indicator counts the tiles decoded; at the save there were
\* exactly num_rows * num_columns requests, one per cell, and the progress
\* indicator stands at num_rows * num_columns.
C8_RowMajorRequests ==
    InDownload =>
        /\ \A i \in 1..Len(tileReqs) :
            tileReqs[i] = <<(i - 1) % nc, (i - 1) \div nc>>
        /\ pbar = Len(tileSizes)
        /\ pc \in {"save", "saved"} =>
            /\ Len(tileReqs) = nr * nc
            /\ pbar = nr * nc
            /\ \A r \in 0..(nr - 1), c \in 0..(nc - 1) :
                Cardinality({i \in 1..Len(tileReqs) : tileReqs[i] = <<c, r>>}) = 1

\* C8's case: a download of a 2 x 2 grid at zoom_factor 4 has saved.
C8_Witness == pc = "saved" /\ zoom_factor = 4 /\ nr = 2 /\ nc = 2 /\ Len(tileReqs) = 4

\* C10: a download whose grid is empty (num_rows = 0 or num_columns = 0)
\* requests no tile, has no composite, never saves and writes no file: it
\* can only end by raising at the save.
C10_EmptyGridFails ==
    (InDownload /\ (nr = 0 \/ nc = 0)) =>
        /\ tileReqs = <<>>
        /\ pbar = 0
        /\ IMAGE = NoneImage
        /\ ~saved
        /\ pc \in {"row", "save", "raised"}

\* C10's case: an image narrower than 2^(5 - zoom_factor) gave rows without
\* columns, and the download raised at the save.
C10_Witness ==
    /\ pc = "raised" /\ HasLinks(_metadata)
    /\ nr > 0 /\ nc = 0 /\ row = nr
    /\ _metadata.w > 0

====
